---- MODULE Spec2Model ----
(***************************************************************************)
(* Model of ru_smb_companies: the command-line front end (__main__.py),    *)
(* the Spark stage base class (stages/spark_stage.py) and the stages the   *)
(* front end drives (Extractor, Aggregator).                               *)
(***************************************************************************)
EXTENDS Integers, Sequences, FiniteSets, TLC

VARIABLES
    cfgFile,   \* content of the persisted config.json (or why it cannot be loaded)
    files,     \* the file system: path of a regular file |-> its records
    dirs,      \* the file system: the set of directory paths
    calls,     \* the stage invocations on record (Extractor / Aggregator calls)
    last,      \* the last command-line invocation and how it ended
    written,   \* the last SparkStage._write: the data frame handed in, and where
    readDf,    \* the last SparkStage._read: the path and the data frame returned
    stage      \* the SparkStage object: its reference, its session, how it exited

vars == <<cfgFile, files, dirs, calls, last, written, readDf, stage>>

-----------------------------------------------------------------------------
(* Bounds of the model *)

\* rows in one data frame handed to the stage writer
MaxDfRows == 1
\* rows the extraction left in one dataset's directory
MaxRows == 2
-----------------------------------------------------------------------------
(* Optional values: Python's None, Spark's null *)

None == [null |-> TRUE]
Some(v) == [null |-> FALSE, v |-> v]
IsNone(o) == o.null

RECURSIVE Flatten(_)
Flatten(ss) == IF ss = <<>> THEN <<>> ELSE Head(ss) \o Flatten(Tail(ss))

Range(s) == {s[i] : i \in 1..Len(s)}

\* all orderings of a finite set, as sequences without repetition
Perms(S) == {s \in [1..Cardinality(S) -> S] : \A i, j \in 1..Cardinality(S) : s[i] = s[j] => i = j}

\* sequences over S of length at most n
SeqsUpTo(S, n) == UNION {[1..k -> S] : k \in 0..n}

-----------------------------------------------------------------------------
(* Paths.  A path is a sequence of components; a component is             *)
(* <<prefix, rest, extension>> and its text is prefix rest [. extension]  *)

Comp(s) == <<"", s, "">>
DataCsv(i) == <<"data-", i, "csv">>
CsvName(s) == <<"", s, "csv">>
TxtName(s) == <<"", s, "txt">>
\* the file name Spark gives the single partition it writes
PartCsv == <<"part-", "00000", "csv">>

Join(p, c) == Append(p, c)
Parent(p) == IF p = <<>> THEN <<>> ELSE SubSeq(p, 1, Len(p) - 1)
Name(p) == p[Len(p)]

\* pathlib's PurePath.suffix: the last dot and what follows it
Suffix(p) == IF p = <<>> \/ Name(p)[3] = "" THEN "" ELSE "." \o Name(p)[3]

\* fnmatch of a file name against data-*.csv
MatchesDataCsv(c) == c[1] = "data-" /\ c[3] = "csv"

\* the file system as one value
FS == [files |-> files, dirs |-> dirs]

Exists(fs, p) == p \in DOMAIN fs.files \/ p \in fs.dirs
IsDir(fs, p) == p \in fs.dirs

\* Path.glob("data-*.csv"): the matching children, in no particular order
Glob(fs, p) == {f \in DOMAIN fs.files : Len(f) > 0 /\ Parent(f) = p /\ MatchesDataCsv(Name(f))}

Ancestors(p) == {SubSeq(p, 1, k) : k \in 0..Len(p)}

\* Path.mkdir(parents=True, exist_ok=True)
Mkdir(fs, p) == [fs EXCEPT !.dirs = @ \cup Ancestors(p)]

PutFile(fs, p, content) ==
    [fs EXCEPT !.files = [q \in DOMAIN @ \cup {p} |-> IF q = p THEN content ELSE @[q]]]

-----------------------------------------------------------------------------
(* Rows and their CSV text *)

Date(y, m, d) == [y |-> y, m |-> m, d |-> d]
Pad2(n) == IF n < 10 THEN "0" \o ToString(n) ELSE ToString(n)

\* Spark's default date pattern on write, yyyy-MM-dd
FormatIso(d) == ToString(d.y) \o "-" \o Pad2(d.m) \o "-" \o Pad2(d.d)
\* the pattern dd.MM.yyyy of the extracted files
FormatDmy(d) == Pad2(d.d) \o "." \o Pad2(d.m) \o "." \o ToString(d.y)

Dates == {Date(2021, 1, 1), Date(2022, 1, 1)}

DateLess(a, b) ==
    \/ a.y < b.y
    \/ a.y = b.y /\ a.m < b.m
    \/ a.y = b.y /\ a.m = b.m /\ a.d < b.d

\* parsing a date cell with the pattern dd.MM.yyyy; text that does not fit is null
DmyText == [d \in Dates |-> FormatDmy(d)]
IsoText == [d \in Dates |-> FormatIso(d)]
ParseDmy(s) ==
    IF \E d \in Dates : DmyText[d] = s
    THEN Some(CHOOSE d \in Dates : DmyText[d] = s)
    ELSE None

\* a typed row of a data frame: identifier, snapshot date, one more string field
Row(id, date, val) == [id |-> id, date |-> date, val |-> val]

\* write options of SparkStage._write: nullValue="NA", default date pattern
WriteCell(o) == IF IsNone(o) THEN "NA" ELSE o.v
WriteDateCell(o) == IF IsNone(o) THEN "NA" ELSE IsoText[o.v]
WriteRow(r) == [id |-> WriteCell(r.id), date |-> WriteDateCell(r.date), val |-> WriteCell(r.val)]

\* read options of SparkStage._read: dateFormat="dd.MM.yyyy", nullValue left at
\* Spark's default, the empty text
ReadCell(s) == IF s = "" THEN None ELSE Some(s)
ReadDateCell(s) == IF s = "" THEN None ELSE ParseDmy(s)
ReadRow(t) == [id |-> ReadCell(t.id), date |-> ReadDateCell(t.date), val |-> ReadCell(t.val)]

ReadRows(ts) == [i \in 1..Len(ts) |-> ReadRow(ts[i])]
WriteRows(rs) == [i \in 1..Len(rs) |-> WriteRow(rs[i])]

-----------------------------------------------------------------------------
(* SparkStage *)

\* SparkStage._read with the existence check left out: Spark fails on the path
ReadNoExistCheck(fs, in_path, order) ==
    IF ~Exists(fs, in_path) THEN [err |-> "AnalysisException", data |-> None]
    ELSE LET input_files == IF IsDir(fs, in_path) THEN order ELSE <<>>
         IN IF Len(input_files) = 0 THEN [err |-> "", data |-> None]
            ELSE [err |-> "",
                  data |-> Some(Flatten([i \in 1..Len(input_files) |-> ReadRows(fs.files[input_files[i]])]))]

\* SparkStage._read handing Spark only the first of the files found
ReadFirstOnly(fs, in_path, order) ==
    IF ~Exists(fs, in_path) THEN [err |-> "", data |-> None]
    ELSE LET input_files == IF IsDir(fs, in_path) THEN order ELSE <<>>
         IN IF Len(input_files) = 0 THEN [err |-> "", data |-> None]
            ELSE [err |-> "", data |-> Some(ReadRows(fs.files[input_files[1]]))]

\* SparkStage._read(in_path, schema); order is the order in which the glob
\* lists the directory's data-*.csv files
Read(fs, in_path, order) ==
    IF ~Exists(fs, in_path) THEN [err |-> "", data |-> None]
    ELSE LET input_files ==
                 IF IsDir(fs, in_path) THEN order
                 ELSE IF Suffix(in_path) = "csv" THEN <<in_path>>
                 ELSE <<>>
         IN IF Len(input_files) = 0 THEN [err |-> "", data |-> None]
            ELSE [err |-> "",
                  data |-> Some(Flatten([i \in 1..Len(input_files) |-> ReadRows(fs.files[input_files[i]])]))]

\* the orders in which _read may meet the files of in_path
GlobOrders(fs, in_path) == Perms(Glob(fs, in_path))

\* shutil.move(result, out_file): into out_file when that is a directory
MoveTarget(fs, out_file) == IF IsDir(fs, out_file) THEN Join(out_file, PartCsv) ELSE out_file

\* SparkStage._write(df, out_file)
Write(fs, df, out_file) ==
    IF IsNone(df) THEN [err |-> "AttributeError", fs |-> fs]
    ELSE LET made == Mkdir(fs, Parent(out_file))
         IN [err |-> "", fs |-> PutFile(made, MoveTarget(made, out_file), WriteRows(df.v))]

-----------------------------------------------------------------------------
(* The stage reader and writer on their own: a stage writes a data frame   *)
(* and a stage reads a path                                                *)

OutDir == <<Comp("out")>>
WritePaths == {Join(OutDir, DataCsv("0")), Join(OutDir, CsvName("agg"))}
ReadPaths == {OutDir, Join(OutDir, CsvName("agg")), <<Comp("nowhere")>>}

CsvRows == {Row(Some("A"), d, v) : d \in {None, Some(Date(2021, 1, 1))}, v \in {None, Some("x")}}
CsvFrames == SeqsUpTo(CsvRows, MaxDfRows)

NothingWritten == [path |-> None, df |-> None]
NothingRead == [path |-> None, err |-> "", data |-> None, wrote |-> NothingWritten]
NoCommand == [cmd |-> "", outcome |-> "", args |-> <<>>]
\* no SparkStage object has been constructed
NoStage == [ref |-> "none", session |-> "null", exit |-> "", del |-> ""]
\* no config.json in the application directory
CfgMissing == [state |-> "missing"]

InitCsv ==
    /\ cfgFile = CfgMissing
    /\ files = <<>>
    /\ dirs = {<<>>}
    /\ calls = <<>>
    /\ last = NoCommand
    /\ written = NothingWritten
    /\ readDf = NothingRead
    /\ stage = NoStage

\* a stage saves a data frame: SparkStage._write(df, out_file)
StageWrite(df, out_file) ==
    LET w == Write(FS, Some(df), out_file)
    IN /\ w.err = ""
       /\ files' = w.fs.files
       /\ dirs' = w.fs.dirs
       /\ written' = [path |-> Some(out_file), df |-> Some(df)]
       /\ UNCHANGED <<cfgFile, calls, last, readDf, stage>>

\* a stage loads a path: SparkStage._read(in_path, schema)
StageRead(in_path, order) ==
    LET r == Read(FS, in_path, order)
    IN /\ readDf' = [path |-> Some(in_path), err |-> r.err, data |-> r.data, wrote |-> written]
       /\ UNCHANGED <<cfgFile, files, dirs, calls, last, written, stage>>

NextCsv ==
    \/ \E df \in CsvFrames, p \in WritePaths : StageWrite(df, p)
    \/ \E p \in ReadPaths : \E order \in GlobOrders(FS, p) : StageRead(p, order)

SpecCsv == InitCsv /\ [][NextCsv]_vars

\* the last read took the directory that holds exactly the file last written
ReadBackOfWritten ==
    /\ ~IsNone(written.path)
    /\ readDf.wrote = written
    /\ readDf.path = Some(Parent(written.path.v))
    /\ Glob(FS, Parent(written.path.v)) = {written.path.v}

\* C5: a row written by the stage writer and read back by the stage reader is
\* field for field the row that was written: what was missing is missing, what
\* was present is present and equal
C5_RoundTrip == ReadBackOfWritten => readDf.data = written.df

-----------------------------------------------------------------------------
(* Aggregator: one run of the aggregation stage (design section 4.5)       *)

\* the identifiers, in identifier order
IdSeq == <<"A", "B", "C">>
Ids == Range(IdSeq)

EmptyMap == <<>>

\* the new row's snapshot date is strictly more recent than the stored row's
Newer(r, stored) ==
    /\ ~IsNone(r.date)
    /\ ~IsNone(stored.date)
    /\ DateLess(stored.date.v, r.date.v)

\* conflict resolution that lets the row seen last win
FoldStepLastWins(m, r) ==
    [k \in DOMAIN m \cup {r.id} |-> IF k = r.id THEN r ELSE m[k]]

\* conflict resolution for one row: insert a new identifier, replace the stored
\* row only by a strictly more recent one
FoldStep(m, r) ==
    IF r.id \notin DOMAIN m
    THEN [k \in DOMAIN m \cup {r.id} |-> IF k = r.id THEN r ELSE m[k]]
    ELSE IF Newer(r, m[r.id]) THEN [m EXCEPT ![r.id] = r] ELSE m

RECURSIVE FoldRows(_, _)
FoldRows(m, rows) ==
    IF rows = <<>> THEN m ELSE FoldRows(FoldStep(m, Head(rows)), Tail(rows))

\* the identifier set of a companion aggregate
CompanionIds(fs, p) == {ReadRow(fs.files[p][i]).id : i \in 1..Len(fs.files[p])}

\* the map's rows in identifier order, restricted to the identifiers in keep
Emit(m, keep) ==
    LET ks == SelectSeq(IdSeq, LAMBDA k : Some(k) \in DOMAIN m /\ Some(k) \in keep)
    IN [i \in 1..Len(ks) |-> m[Some(ks[i])]]

\* Aggregator.__call__(in_dir, out_file, mode, smb_data_file)
AggregatorCall(fs, in_dir, out_file, mode, smb_data_file, order) ==
    IF ~IsNone(smb_data_file) /\ smb_data_file.v \notin DOMAIN fs.files
    THEN [outcome |-> "ConfigurationError", fs |-> fs, out |-> None, work |-> {}]
    ELSE LET rd == Read(fs, in_dir, order)
             rows == IF IsNone(rd.data) THEN <<>> ELSE rd.data.v
             m == FoldRows(EmptyMap, rows)
             keep == IF IsNone(smb_data_file) THEN DOMAIN m
                     ELSE CompanionIds(fs, smb_data_file.v)
             out == Emit(m, keep)
             w == Write(fs, Some(out), out_file)
             readWork == IF IsNone(rd.data) THEN {} ELSE {"chunk_read"}
         IN IF rd.err # ""
            THEN [outcome |-> rd.err, fs |-> fs, out |-> None, work |-> readWork]
            ELSE [outcome |-> IF w.err = "" THEN "ok" ELSE w.err,
                  fs |-> w.fs, out |-> Some(out),
                  work |-> readWork \cup {"output_written"}]

\* the record kept of one stage invocation
AggCallRecord(in_dir, out_file, mode, smb_data_file, order, r) ==
    [stage |-> "aggregate", mode |-> mode, in_dir |-> in_dir, out_file |-> out_file,
     smb_data_file |-> smb_data_file, order |-> order,
     outcome |-> r.outcome, out |-> r.out, work |-> r.work]

-----------------------------------------------------------------------------
(* Aggregation of one directory of extracted chunk files, run again and    *)
(* again: the directory is what an extraction left behind                  *)

DedupIds == {"A", "B"}
Vals == {"x", "y"}
ChunkRows == {Row(Some(i), Some(d), Some(v)) : i \in DedupIds, d \in Dates, v \in Vals}
ChunkSizes == {1, 2}

\* the text of a normalized row in an extracted chunk file
ExtractRow(r) ==
    [id |-> IF IsNone(r.id) THEN "" ELSE r.id.v,
     date |-> IF IsNone(r.date) THEN "" ELSE DmyText[r.date.v],
     val |-> IF IsNone(r.val) THEN "" ELSE r.val.v]

NumChunks(n, k) == (n + k - 1) \div k

\* rows cut into chunk files data-0.csv, data-1.csv, ... of at most k rows
ChunkFiles(dir, rows, k) ==
    [f \in {Join(dir, DataCsv(ToString(i))) : i \in 0..(NumChunks(Len(rows), k) - 1)} |->
        LET i == CHOOSE j \in 0..(NumChunks(Len(rows), k) - 1) : f = Join(dir, DataCsv(ToString(j)))
            hi == IF (i + 1) * k < Len(rows) THEN (i + 1) * k ELSE Len(rows)
        IN [j \in 1..(hi - i * k) |-> ExtractRow(rows[i * k + j])]]

ExtractedDir == <<Comp("extract"), Comp("smb")>>
AggOut == <<Comp("aggregate"), Comp("smb"), CsvName("agg")>>
StrayFile == Join(ExtractedDir, TxtName("notes"))

InitDedup ==
    /\ cfgFile = CfgMissing
    /\ calls = <<>>
    /\ last = NoCommand
    /\ written = NothingWritten
    /\ readDf = NothingRead
    /\ stage = NoStage
    /\ \E present \in BOOLEAN, stray \in BOOLEAN, k \in ChunkSizes :
       \E rows \in SeqsUpTo(ChunkRows, MaxRows) :
          /\ (~present) => (rows = <<>> /\ ~stray)
          /\ dirs = IF present THEN Ancestors(ExtractedDir) ELSE {<<>>}
          /\ files = IF stray
                     THEN PutFile([files |-> ChunkFiles(ExtractedDir, rows, k), dirs |-> {}],
                                  StrayFile, <<ExtractRow(Row(Some("C"), None, None))>>).files
                     ELSE ChunkFiles(ExtractedDir, rows, k)

\* one run of the Aggregator over the extracted directory
AggregateRun(mode, order) ==
    \E r \in {AggregatorCall(FS, ExtractedDir, AggOut, mode, None, order)} :
    LET rec == AggCallRecord(ExtractedDir, AggOut, mode, None, order, r)
    IN /\ files' = r.fs.files
       /\ dirs' = r.fs.dirs
       /\ calls' = IF Len(calls) < 2 THEN Append(calls, rec) ELSE <<calls[2], rec>>
       /\ UNCHANGED <<cfgFile, last, written, readDf, stage>>

NextDedup ==
    \E mode \in {"smb"} : \E order \in GlobOrders(FS, ExtractedDir) : AggregateRun(mode, order)

SpecDedup == InitDedup /\ [][NextDedup]_vars

\* the rows of the data-*.csv files of a directory, as the stage reader types them
InputRows(fs, dir) == UNION {Range(ReadRows(fs.files[f])) : f \in Glob(fs, dir)}

\* the rows of a run in the order the run met them
ReadSeq(c) == Flatten([k \in 1..Len(c.order) |-> ReadRows(files[c.order[k]])])

\* r carries the most recent snapshot date among the rows of its identifier
HasMaxDate(r, rows) == \A q \in rows : q.id = r.id => ~DateLess(r.date.v, q.date.v)

\* position of the first row, in reading order, that carries identifier id and
\* that identifier's most recent date
FirstWinner(seq, id) ==
    CHOOSE i \in 1..Len(seq) :
        /\ seq[i].id = id
        /\ HasMaxDate(seq[i], Range(seq))
        /\ \A j \in 1..(i - 1) : ~(seq[j].id = id /\ HasMaxDate(seq[j], Range(seq)))

\* C1: latest snapshot wins.  For every identifier in the input chunk rows the
\* aggregated output holds exactly one row, an input row of that identifier
\* with the most recent snapshot date; among equally recent rows it is the one
\* read first, since only a strictly more recent row replaces the stored one
C1_LatestSnapshotWins ==
    \A n \in 1..Len(calls) :
        LET c == calls[n]
            inp == InputRows(FS, c.in_dir)
        IN /\ c.outcome = "ok"
           /\ \A id \in {r.id : r \in inp} :
                LET hits == {j \in 1..Len(c.out.v) : c.out.v[j].id = id}
                IN /\ Cardinality(hits) = 1
                   /\ \A j \in hits :
                        /\ c.out.v[j] \in inp
                        /\ HasMaxDate(c.out.v[j], inp)
                        /\ c.out.v[j] = ReadSeq(c)[FirstWinner(ReadSeq(c), id)]

\* a run that read the 2022 row of an identifier before its 2021 row, from
\* another chunk file, and put the 2022 row out
C1_Witness ==
    \E n \in 1..Len(calls) :
        LET c == calls[n]
        IN /\ c.outcome = "ok"
           /\ Len(c.order) = 2
           /\ \E a \in Range(ReadRows(files[c.order[1]])), b \in Range(ReadRows(files[c.order[2]])) :
                /\ a.id = b.id
                /\ a.date = Some(Date(2022, 1, 1))
                /\ b.date = Some(Date(2021, 1, 1))
                /\ a \in Range(c.out.v)
                /\ b \notin Range(c.out.v)

\* two outputs hold the same identifiers and, per identifier, the same row
\* or two rows of one snapshot date
SameUpToTies(o1, o2) ==
    /\ Len(o1) = Len(o2)
    /\ \A j \in 1..Len(o1) :
        /\ o1[j].id = o2[j].id
        /\ o1[j] = o2[j] \/ o1[j].date = o2[j].date

\* C4: deduplication is idempotent and insensitive to the order in which the
\* chunk files are met: two runs over the same files yield the same output when
\* they meet the files in the same order, and in any two orders the same row
\* for every identifier except where the winning rows tie on snapshot date
C4_OrderInsensitive ==
    (Len(calls) = 2 /\ calls[1].in_dir = calls[2].in_dir) =>
        /\ calls[1].outcome = "ok"
        /\ calls[2].outcome = "ok"
        /\ SameUpToTies(calls[1].out.v, calls[2].out.v)
        /\ calls[1].order = calls[2].order => calls[1].out = calls[2].out

\* two runs met two chunk files in opposite orders, the files hold rows of one
\* identifier with different dates, and the outputs are equal
C4_Witness ==
    /\ Len(calls) = 2
    /\ Len(calls[1].order) = 2
    /\ calls[1].order # calls[2].order
    /\ calls[1].out = calls[2].out
    /\ \E a \in Range(ReadRows(files[calls[1].order[1]])), b \in Range(ReadRows(files[calls[1].order[2]])) :
        a.id = b.id /\ a.date # b.date

\* the directory a run was given holds no readable chunk file, or is not there
NoChunks(fs, dir) == ~Exists(fs, dir) \/ Glob(fs, dir) = {}

C6_WitnessStray ==
    \E n \in 1..Len(calls) :
        /\ StrayFile \in DOMAIN files
        /\ Glob(FS, calls[n].in_dir) = {}
        /\ calls[n].outcome = "ok"
        /\ files[calls[n].out_file] = <<>>

-----------------------------------------------------------------------------
(* The command-line front end: names and default paths                     *)

\* the source datasets in the order the enumeration lists them
SourceDatasets == <<"smb", "revexp", "empl">>

\* get_default_path(stage_name, source_dataset, filename)
GetDefaultPath(stage_name, source_dataset, filename) ==
    LET base == <<Comp("ru-smb-data"), Comp(stage_name)>>
        withDs == IF IsNone(source_dataset) THEN base ELSE Join(base, Comp(source_dataset.v))
    IN IF IsNone(filename) THEN withDs ELSE Join(withDs, filename.v)

\* the names bound at module level of __main__.py, and the builtins it uses
ModuleNames ==
    {"enum", "json", "pathlib", "typer", "List", "Optional", "Annotated",
     "Aggregator", "Downloader", "Extractor", "Georeferencer", "Panelizer",
     "SourceDatasets", "StageNames", "Storages",
     "APP_NAME", "app", "download_app", "extract_app", "aggregate_app",
     "default_config", "app_dir", "app_config_path", "app_config", "f",
     "get_default_path", "get_downloader",
     "str", "dict", "print", "open", "bool", "int", "RuntimeError"}

\* the first name of a function body, in evaluation order, that is bound
\* neither as a parameter nor at module level; None when every name is bound
FirstUnbound(names, params) ==
    IF \E i \in 1..Len(names) : names[i] \notin params \cup ModuleNames
    THEN Some(names[CHOOSE i \in 1..Len(names) :
                /\ names[i] \notin params \cup ModuleNames
                /\ \A j \in 1..(i - 1) : names[j] \in params \cup ModuleNames])
    ELSE None

\* typer's check of an option declared exists=True, before the command body
PathOptionOk(fs, p) == Exists(fs, p)

\* the same option without exists=True
PathOptionUnchecked(fs, p) == TRUE

\* the companion option of aggregate revexp and aggregate empl
CompanionOptionOk(fs, smb_data_file) == PathOptionOk(fs, smb_data_file)

-----------------------------------------------------------------------------
(* The aggregate commands                                                  *)

AggFileName == CsvName("agg")
DefaultCompanion == GetDefaultPath("aggregate", Some("smb"), Some(AggFileName))

\* aggregate_all, lines 332-333: the companion handed to the Aggregator
CompanionArg(ds) == IF ds \in {"revexp", "empl"} THEN Some(DefaultCompanion) ELSE None

\* aggregate_all, lines 326-335: the loop over the source datasets from the
\* i-th on; an exception of the Aggregator ends the command
RECURSIVE AggregateAllLoop(_, _, _, _, _)
AggregateAllLoop(fs, in_dir, out_dir, orders, i) ==
    IF i > Len(SourceDatasets) THEN [fs |-> fs, calls |-> <<>>, outcome |-> "ok"]
    ELSE LET ds == SourceDatasets[i]
             dsIn == Join(in_dir, Comp(ds))
             dsOut == Join(Join(out_dir, Comp(ds)), AggFileName)
             r == AggregatorCall(fs, dsIn, dsOut, ds, CompanionArg(ds), orders[ds])
             rec == AggCallRecord(dsIn, dsOut, ds, CompanionArg(ds), orders[ds], r)
         IN IF r.outcome # "ok"
            THEN [fs |-> r.fs, calls |-> <<rec>>, outcome |-> r.outcome]
            ELSE LET rest == AggregateAllLoop(r.fs, in_dir, out_dir, orders, i + 1)
                 IN [fs |-> rest.fs, calls |-> <<rec>> \o rest.calls, outcome |-> rest.outcome]

\* the glob orders of the three dataset directories under in_dir
DatasetOrders(fs, in_dir) ==
    {o \in [Range(SourceDatasets) -> UNION {GlobOrders(fs, Join(in_dir, Comp(ds))) : ds \in Range(SourceDatasets)}] :
        \A ds \in Range(SourceDatasets) : o[ds] \in GlobOrders(fs, Join(in_dir, Comp(ds)))}

\* the command `aggregate all --in-dir in_dir --out-dir out_dir`
AggregateAll(in_dir, out_dir, orders) ==
    \E r \in {AggregateAllLoop(FS, in_dir, out_dir, orders, 1)} :
       /\ files' = r.fs.files
       /\ dirs' = r.fs.dirs
       /\ calls' = r.calls
       /\ last' = [cmd |-> "aggregate all", outcome |-> r.outcome,
                   args |-> [in_dir |-> in_dir, out_dir |-> out_dir]]
       /\ UNCHANGED <<cfgFile, written, readDf, stage>>

\* the names the body of aggregate_smb evaluates up to the Aggregator call
AggregateSmbNames == <<"Aggregator", "str", "in_dir", "str", "out_file", "SourceDatasets">>
\* the names the bodies of aggregate_revexp and aggregate_empl evaluate
AggregateCompanionNames ==
    <<"Aggregator", "str", "in_dir", "str", "out_file", "SourceDatasets", "str", "smb_data_file">>

\* the command `aggregate smb`, lines 338-357: the body names out_file, which
\* is neither a parameter nor a module-level name
AggregateSmb(in_dir, out_dir) ==
    /\ ~IsNone(FirstUnbound(AggregateSmbNames, {"in_dir", "out_dir"}))
    /\ calls' = <<>>
    /\ last' = [cmd |-> "aggregate smb", outcome |-> "NameError",
                args |-> [in_dir |-> in_dir, out_dir |-> out_dir]]
    /\ UNCHANGED <<cfgFile, files, dirs, written, readDf, stage>>

\* the commands `aggregate revexp` and `aggregate empl`, lines 360-419
AggregateWithCompanion(ds, in_dir, out_dir, smb_data_file) ==
    /\ ~IsNone(FirstUnbound(AggregateCompanionNames, {"in_dir", "out_dir", "smb_data_file"}))
    /\ calls' = <<>>
    /\ last' = [cmd |-> "aggregate " \o ds,
                outcome |-> IF CompanionOptionOk(FS, smb_data_file) THEN "NameError" ELSE "BadParameter",
                args |-> [in_dir |-> in_dir, out_dir |-> out_dir, smb_data_file |-> smb_data_file]]
    /\ UNCHANGED <<cfgFile, files, dirs, written, readDf, stage>>

AggregateRevexp(in_dir, out_dir, smb_data_file) ==
    AggregateWithCompanion("revexp", in_dir, out_dir, smb_data_file)

AggregateEmpl(in_dir, out_dir, smb_data_file) ==
    AggregateWithCompanion("empl", in_dir, out_dir, smb_data_file)

-----------------------------------------------------------------------------
(* The aggregate commands over what an extraction left: per dataset a set  *)
(* of identifiers, one row each, in chunk files of two rows                *)

ExtractRoot == GetDefaultPath("extract", None, None)
AggregateRoot == GetDefaultPath("aggregate", None, None)
Elsewhere == <<Comp("elsewhere")>>
OutDirs == {AggregateRoot, Elsewhere}
CompanionFiles == {DefaultCompanion, Join(Join(Elsewhere, Comp("smb")), AggFileName)}

\* the identifier sets a dataset's extraction may hold
IdSets == {{}, {"A", "B"}, {"A", "C"}, {"A", "B", "C"}}

\* one row per identifier of ids, in identifier order
RowsOf(ids) ==
    LET ks == SelectSeq(IdSeq, LAMBDA k : k \in ids)
    IN [i \in 1..Len(ks) |-> Row(Some(ks[i]), Some(Date(2021, 1, 1)), Some("x"))]

\* an aggregate left at the default companion path by an earlier run
StaleCompanion == DefaultCompanion :> WriteRows(RowsOf({"B"}))

InitAgg ==
    /\ cfgFile = CfgMissing
    /\ calls = <<>>
    /\ last = NoCommand
    /\ written = NothingWritten
    /\ readDf = NothingRead
    /\ stage = NoStage
    /\ \E ids \in [Range(SourceDatasets) -> IdSets], stale \in BOOLEAN :
        /\ files = ChunkFiles(Join(ExtractRoot, Comp("smb")), RowsOf(ids["smb"]), 2)
                    @@ ChunkFiles(Join(ExtractRoot, Comp("revexp")), RowsOf(ids["revexp"]), 2)
                    @@ ChunkFiles(Join(ExtractRoot, Comp("empl")), RowsOf(ids["empl"]), 2)
                    @@ (IF stale THEN StaleCompanion ELSE <<>>)
        /\ dirs = UNION {Ancestors(Join(ExtractRoot, Comp(ds))) : ds \in Range(SourceDatasets)}
                  \cup (IF stale THEN Ancestors(Parent(DefaultCompanion)) ELSE {})

NextAgg ==
    \/ \E out_dir \in OutDirs : \E orders \in DatasetOrders(FS, ExtractRoot) :
          AggregateAll(ExtractRoot, out_dir, orders)
    \/ \E out_dir \in OutDirs : AggregateSmb(Join(ExtractRoot, Comp("smb")), out_dir)
    \/ \E out_dir \in OutDirs, smb_data_file \in CompanionFiles :
          AggregateRevexp(Join(ExtractRoot, Comp("revexp")), out_dir, smb_data_file)
    \/ \E out_dir \in OutDirs, smb_data_file \in CompanionFiles :
          AggregateEmpl(Join(ExtractRoot, Comp("empl")), out_dir, smb_data_file)

SpecAgg == InitAgg /\ [][NextAgg]_vars

\* the identifiers of the rows of a file
FileIds(p) == {ReadRow(files[p][i]).id : i \in 1..Len(files[p])}

\* the identifiers of the chunk rows of a directory
InputIds(dir) == {r.id : r \in InputRows(FS, dir)}

\* C2: join filter.  When the aggregation of revexp or empl is given a
\* companion SMB aggregate, the identifiers of the output are exactly those of
\* the extraction input that are also in the companion file
C2_JoinFilter ==
    \A n \in 1..Len(calls) :
        LET c == calls[n]
        IN (/\ c.stage = "aggregate"
            /\ c.mode \in {"revexp", "empl"}
            /\ ~IsNone(c.smb_data_file)
            /\ c.smb_data_file.v \in DOMAIN files) =>
            /\ c.outcome = "ok"
            /\ c.out_file \in DOMAIN files
            /\ FileIds(c.out_file) = InputIds(c.in_dir) \cap CompanionIds(FS, c.smb_data_file.v)

\* companion {A, B}, revexp input {A, C}: exactly one output row, for A
C2_Witness ==
    \E n \in 1..Len(calls) :
        LET c == calls[n]
        IN /\ c.mode = "revexp"
           /\ c.outcome = "ok"
           /\ ~IsNone(c.smb_data_file)
           /\ CompanionIds(FS, c.smb_data_file.v) = {Some("A"), Some("B")}
           /\ InputIds(c.in_dir) = {Some("A"), Some("C")}
           /\ Len(files[c.out_file]) = 1
           /\ FileIds(c.out_file) = {Some("A")}

SingleAggregateCommands == {"aggregate smb", "aggregate revexp", "aggregate empl"}

\* the dataset kind a single-dataset aggregate command stands for
ModeOf(cmd) ==
    CASE cmd = "aggregate smb" -> "smb"
      [] cmd = "aggregate revexp" -> "revexp"
      [] cmd = "aggregate empl" -> "empl"

\* C9: each single-dataset aggregate command invokes the Aggregator exactly
\* once, with the given in_dir, an output file under the given out_dir, the
\* command's dataset kind and (revexp, empl) the given smb_data_file, and does
\* not fail before the Aggregator is invoked
C9_SingleCommandInvokesOnce ==
    (/\ last.cmd \in SingleAggregateCommands
     /\ last.cmd # "aggregate smb" => Exists(FS, last.args.smb_data_file)) =>
        /\ last.outcome = "ok"
        /\ Len(calls) = 1
        /\ calls[1].in_dir = last.args.in_dir
        /\ last.args.out_dir \in Ancestors(calls[1].out_file)
        /\ calls[1].mode = ModeOf(last.cmd)
        /\ last.cmd # "aggregate smb" => calls[1].smb_data_file = Some(last.args.smb_data_file)

\* C10: in aggregate_all the companion handed to the revexp and empl
\* aggregations is out_dir/smb/agg.csv, the SMB aggregate this invocation wrote
\* before it started them
C10_CompanionIsThisRunsSmb ==
    last.cmd = "aggregate all" =>
        \A n \in 1..Len(calls) :
            calls[n].mode \in {"revexp", "empl"} =>
                /\ calls[n].smb_data_file = Some(Join(Join(last.args.out_dir, Comp("smb")), AggFileName))
                /\ \E k \in 1..(n - 1) :
                    /\ calls[k].mode = "smb"
                    /\ calls[k].outcome = "ok"
                    /\ Some(calls[k].out_file) = calls[n].smb_data_file

-----------------------------------------------------------------------------
(* The persisted configuration, lines 48-59                                *)

\* default_config
default_config == [storage |-> "local", token |-> "", num_workers |-> 1, chunksize |-> 16]

\* module load: the parsed file, or default_config when it cannot be loaded
LoadConfig(cf) == IF cf.state = "ok" THEN cf.json ELSE default_config

\* dict.get(key)
Get(d, key) == IF key \in DOMAIN d THEN Some(d[key]) ELSE None

-----------------------------------------------------------------------------
(* CodeTree (design section 4.1).  A raw code is its sequence of dotted    *)
(* segments; a group letter is a single segment holding a letter           *)

Letters == {"A", "M"}
NumSegs == {"01", "10", "20", "69"}

IsGroupLetter(raw) == Len(raw) = 1 /\ raw[1] \in Letters
IsDotted(raw) == Len(raw) >= 1 /\ \A i \in 1..Len(raw) : raw[i] \in NumSegs

\* the filters partitioned into group letters and dotted codes
CodeTreeBuild(activity_codes) ==
    LET fs == IF IsNone(activity_codes) THEN <<>> ELSE activity_codes.v
    IN [enabled |-> fs # <<>>,
        groups |-> {fs[i][1] : i \in {j \in 1..Len(fs) : IsGroupLetter(fs[j])}},
        codes |-> {fs[i] : i \in {j \in 1..Len(fs) : IsDotted(fs[j])}}]

Truncate(segs, n) == SubSeq(segs, 1, n)

\* matches without the ancestor rule: group letter or exact code only
CodeTreeMatchesExact(tree, code) ==
    \/ ~tree.enabled
    \/ code.group \in tree.groups
    \/ IsDotted(code.segs) /\ code.segs \in tree.codes

\* CodeTree.matches(code)
CodeTreeMatches(tree, code) ==
    \/ ~tree.enabled
    \/ code.group \in tree.groups
    \/ /\ IsDotted(code.segs)
       /\ \/ code.segs \in tree.codes
          \/ \E f \in tree.codes : Len(f) <= Len(code.segs) /\ Truncate(code.segs, Len(f)) = f

-----------------------------------------------------------------------------
(* Extractor (design sections 4.2-4.4)                                     *)

ZipName(s) == <<"", s, "zip">>
\* archive names in sorted order
ArchiveOrder == <<"snap1", "snap2">>

\* the archives of a source directory, sorted by name
Archives(fs, in_dir) ==
    LET names == SelectSeq(ArchiveOrder, LAMBDA n : Join(in_dir, ZipName(n)) \in DOMAIN fs.files)
    IN [i \in 1..Len(names) |-> Join(in_dir, ZipName(names[i]))]

RECURSIVE JoinDots(_)
JoinDots(segs) ==
    IF segs = <<>> THEN ""
    ELSE IF Len(segs) = 1 THEN segs[1]
    ELSE segs[1] \o "." \o JoinDots(Tail(segs))

\* RecordParser: a record without identifier or snapshot date is a SchemaError
Parses(rec) == ~IsNone(rec.id) /\ ~IsNone(rec.date)

\* the text of a normalized row of the extraction output
RecordText(rec) ==
    [id |-> rec.id.v, date |-> DmyText[rec.date.v],
     val |-> IF IsNone(rec.val) THEN "" ELSE rec.val.v,
     code |-> JoinDots(rec.code.segs)]

\* ArchiveReader: the records of one archive that parse and pass the filter
KeptOf(records, mode, tree) ==
    SelectSeq(records, LAMBDA rec : Parses(rec) /\ (mode = "smb" => CodeTreeMatches(tree, rec.code)))

\* the archives of worker w of n, round robin, and the rows they yield
WorkerRecords(fs, archives, w, n, mode, tree) ==
    LET mine == SelectSeq([i \in 1..Len(archives) |-> [i |-> i, p |-> archives[i]]],
                          LAMBDA a : (a.i - 1) % n = w)
    IN Flatten([i \in 1..Len(mine) |-> KeptOf(fs.files[mine[i].p], mode, tree)])

\* the chunk files of worker w: at most k rows each, numbered per worker
WorkerChunkFiles(out_dir, w, recs, k) ==
    LET nm(i) == Join(out_dir, DataCsv(ToString(w) \o "-" \o ToString(i)))
        cnt == NumChunks(Len(recs), k)
    IN [f \in {nm(i) : i \in 0..(cnt - 1)} |->
          LET i == CHOOSE j \in 0..(cnt - 1) : f = nm(j)
              hi == IF (i + 1) * k < Len(recs) THEN (i + 1) * k ELSE Len(recs)
          IN [j \in 1..(hi - i * k) |-> RecordText(recs[i * k + j])]]

RECURSIVE AllWorkerFiles(_, _, _, _, _, _, _)
AllWorkerFiles(fs, archives, out_dir, w, n, k, mt) ==
    IF w >= n THEN <<>>
    ELSE WorkerChunkFiles(out_dir, w, WorkerRecords(fs, archives, w, n, mt.mode, mt.tree), k)
         @@ AllWorkerFiles(fs, archives, out_dir, w + 1, n, k, mt)

\* the destination emptied: no file under out_dir is left
Cleared(fs, out_dir) ==
    [fs EXCEPT !.files = [f \in {g \in DOMAIN @ : out_dir \notin Ancestors(Parent(g))} |-> @[f]]]

\* Extractor.__init__(storage, num_workers, chunksize, token): the worker
\* count and the chunk size must be positive integers
ExtractorInitOk(num_workers, chunksize) ==
    /\ ~IsNone(num_workers) /\ num_workers.v > 0
    /\ ~IsNone(chunksize) /\ chunksize.v > 0

\* Extractor.__call__(in_dir, out_dir, mode, clear, activity_codes)
ExtractorCall(fs, num_workers, chunksize, in_dir, out_dir, mode, clear, activity_codes) ==
    IF ~IsDir(fs, in_dir)
    THEN [outcome |-> "IOError", fs |-> fs, emitted |-> {}, work |-> {}]
    ELSE LET tree == CodeTreeBuild(activity_codes)
             archives == Archives(fs, in_dir)
             base == Mkdir(IF clear THEN Cleared(fs, out_dir) ELSE fs, out_dir)
             new == AllWorkerFiles(fs, archives, out_dir, 0, num_workers, chunksize,
                                   [mode |-> mode, tree |-> tree])
             kept == UNION {Range(KeptOf(fs.files[archives[i]], mode, tree)) : i \in 1..Len(archives)}
         IN [outcome |-> "ok",
             fs |-> [base EXCEPT !.files = new @@ @],
             emitted |-> kept,
             work |-> (IF clear THEN {"dest_cleared"} ELSE {})
                      \cup (IF archives # <<>> THEN {"archive_read"} ELSE {})
                      \cup (IF new # <<>> THEN {"output_written"} ELSE {})]

ExtractCallRecord(in_dir, out_dir, mode, clear, activity_codes, r) ==
    [stage |-> "extract", mode |-> mode, in_dir |-> in_dir, out_dir |-> out_dir,
     clear |-> clear, activity_codes |-> activity_codes,
     outcome |-> r.outcome, emitted |-> r.emitted, work |-> r.work]

-----------------------------------------------------------------------------
(* The extract commands, lines 152-304, and the config command, 490-535    *)

\* lines 180-188 (229-237, 262-270, 295-303): the options read from
\* app_config and the construction of the Extractor
ExtractSetup(cf) ==
    LET cfg == LoadConfig(cf)
        num_workers == Get(cfg, "num_workers")
        chunksize == Get(cfg, "chunksize")
        storage == Get(cfg, "storage")
        token == Get(cfg, "token")
    IN [num_workers |-> num_workers, chunksize |-> chunksize,
        outcome |-> IF storage = Some("ydisk") /\ IsNone(token) THEN "RuntimeError"
                    ELSE IF ~ExtractorInitOk(num_workers, chunksize) THEN "ConfigurationError"
                    ELSE "ok"]

\* extract_all, lines 189-197: the loop over the source datasets from the i-th on
RECURSIVE ExtractAllLoop(_, _, _, _, _, _)
ExtractAllLoop(fs, su, in_dir, out_dir, ca, i) ==
    IF i > Len(SourceDatasets) THEN [fs |-> fs, calls |-> <<>>, outcome |-> "ok"]
    ELSE LET ds == SourceDatasets[i]
             dsIn == Join(in_dir, Comp(ds))
             dsOut == Join(out_dir, Comp(ds))
             r == ExtractorCall(fs, su.num_workers.v, su.chunksize.v, dsIn, dsOut, ds, ca.clear, ca.ac)
             rec == ExtractCallRecord(dsIn, dsOut, ds, ca.clear, ca.ac, r)
         IN IF r.outcome # "ok"
            THEN [fs |-> r.fs, calls |-> <<rec>>, outcome |-> r.outcome]
            ELSE LET rest == ExtractAllLoop(r.fs, su, in_dir, out_dir, ca, i + 1)
                 IN [fs |-> rest.fs, calls |-> <<rec>> \o rest.calls, outcome |-> rest.outcome]

\* the command `extract all`
ExtractAll(in_dir, out_dir, clear, ac) ==
    \E su \in {ExtractSetup(cfgFile)} :
    \E r \in {IF su.outcome # "ok" THEN [fs |-> FS, calls |-> <<>>, outcome |-> su.outcome]
               ELSE ExtractAllLoop(FS, su, in_dir, out_dir, [clear |-> clear, ac |-> ac], 1)} :
       /\ files' = r.fs.files
       /\ dirs' = r.fs.dirs
       /\ calls' = r.calls
       /\ last' = [cmd |-> "extract all", outcome |-> r.outcome,
                   args |-> [in_dir |-> in_dir, out_dir |-> out_dir, clear |-> clear, ac |-> ac]]
       /\ UNCHANGED <<cfgFile, written, readDf, stage>>

\* one single-dataset extract command: ac is its --ac option (None for the
\* commands that have none), activity_codes what it hands to the Extractor
ExtractOne(ds, in_dir, out_dir, clear, ac, activity_codes) ==
    \E su \in {ExtractSetup(cfgFile)} :
    \E r \in {IF su.outcome # "ok"
               THEN [outcome |-> su.outcome, fs |-> FS, emitted |-> {}, work |-> {}]
               ELSE ExtractorCall(FS, su.num_workers.v, su.chunksize.v, in_dir, out_dir, ds,
                                  clear, activity_codes)} :
       /\ files' = r.fs.files
       /\ dirs' = r.fs.dirs
       /\ calls' = IF su.outcome # "ok" THEN <<>>
                   ELSE <<ExtractCallRecord(in_dir, out_dir, ds, clear, activity_codes, r)>>
       /\ last' = [cmd |-> "extract " \o ds, outcome |-> r.outcome,
                   args |-> [in_dir |-> in_dir, out_dir |-> out_dir, clear |-> clear, ac |-> ac]]
       /\ UNCHANGED <<cfgFile, written, readDf, stage>>

\* extract smb handing on the first --ac value only
ExtractSmbFirstCodeOnly(in_dir, out_dir, clear, ac) ==
    ExtractOne("smb", in_dir, out_dir, clear, ac,
               IF IsNone(ac) \/ ac.v = <<>> THEN ac ELSE Some(<<ac.v[1]>>))

\* the command `extract smb`
ExtractSmb(in_dir, out_dir, clear, ac) == ExtractOne("smb", in_dir, out_dir, clear, ac, ac)
\* the command `extract revexp`
ExtractRevexp(in_dir, out_dir, clear) == ExtractOne("revexp", in_dir, out_dir, clear, None, None)
\* the command `extract empl`
ExtractEmpl(in_dir, out_dir, clear) == ExtractOne("empl", in_dir, out_dir, clear, None, None)

ConfigParams == {"show", "chunksize", "num_workers", "storage", "ydisk_token"}
\* the names the body of config evaluates after the --show branch, lines 527-533
ConfigNames ==
    <<"app_config", "ydisk_token", "app_config", "extractor_num_workers",
      "app_config", "extractor_chunksize", "app_config", "storage",
      "open", "app_config_path", "json", "app_config", "f">>

\* the command `config`: with --show the configuration is printed; without, the
\* body stops at the first name that is not bound, before config.json is opened
Config(show, chunksize, num_workers, storage, ydisk_token) ==
    /\ show \/ ~IsNone(FirstUnbound(ConfigNames, ConfigParams))
    /\ last' = [cmd |-> "config", outcome |-> IF show THEN "ok" ELSE "NameError",
                args |-> [show |-> show, chunksize |-> chunksize, num_workers |-> num_workers,
                          storage |-> storage, ydisk_token |-> ydisk_token]]
    /\ calls' = <<>>
    /\ UNCHANGED <<cfgFile, files, dirs, written, readDf, stage>>

-----------------------------------------------------------------------------
(* Extraction of the smb registry under an activity-code filter            *)

DownloadRoot == GetDefaultPath("download", None, None)

CfgOk(json) == [state |-> "ok", json |-> json]
CfgCorrupt == [state |-> "corrupt"]

\* the activity codes of the records of the registry: a child of 01.10, 01.10
\* itself, a sibling, a code of another group, and a malformed code
ActCodes ==
    <<[group |-> "A", segs |-> <<"01", "10", "01">>],
      [group |-> "A", segs |-> <<"01", "10">>],
      [group |-> "A", segs |-> <<"01", "20">>],
      [group |-> "M", segs |-> <<"69", "20">>],
      [group |-> "", segs |-> <<"x1">>]>>
RecIds == <<"A", "B", "C", "D", "E">>

\* the k-th record of the registry
Rec(k) ==
    [id |-> Some(RecIds[k]), date |-> Some(Date(2021, 1, 1)), val |-> Some("x"),
     code |-> ActCodes[k]]
\* a record without a snapshot date, and a record of a dataset without codes
RecNoDate == [id |-> Some("A"), date |-> None, val |-> Some("y"), code |-> ActCodes[1]]
RecPlain(id) ==
    [id |-> Some(id), date |-> Some(Date(2022, 1, 1)), val |-> Some("y"),
     code |-> [group |-> "", segs |-> <<>>]]

\* the records of the chosen indices, in index order
RecsOf(S) ==
    LET ks == SelectSeq(<<1, 2, 3, 4, 5>>, LAMBDA k : k \in S)
    IN [i \in 1..Len(ks) |-> Rec(ks[i])]

\* one archive file, absent when it would hold no record
Archive(dir, name, recs) ==
    IF recs = <<>> THEN <<>> ELSE Join(dir, ZipName(name)) :> recs

\* the values --ac may repeat: a group letter, a parent code, a root segment
\* and a malformed code
Filters == {<<"A">>, <<"01", "10">>, <<"69">>, <<"x1">>}
AcLists ==
    {None} \cup {Some(<<f>>) : f \in Filters}
           \cup {Some(<<<<"69">>, <<"01", "10">>>>), Some(<<<<"x1">>, <<"A">>>>)}

SmallChunks == CfgOk([storage |-> "local", token |-> "", num_workers |-> 2, chunksize |-> 2])

InitExtract ==
    /\ cfgFile \in {CfgMissing, SmallChunks}
    /\ calls = <<>>
    /\ last = NoCommand
    /\ written = NothingWritten
    /\ readDf = NothingRead
    /\ stage = NoStage
    /\ \E S \in SUBSET (1..5) :
        files = Archive(Join(DownloadRoot, Comp("smb")), "snap1", RecsOf(S \cap {1, 3, 5}))
                @@ Archive(Join(DownloadRoot, Comp("smb")), "snap2", RecsOf(S \cap {2, 4}))
                @@ Archive(Join(DownloadRoot, Comp("revexp")), "snap1", <<RecPlain("A")>>)
                @@ Archive(Join(DownloadRoot, Comp("empl")), "snap1", <<RecPlain("B")>>)
    /\ dirs = UNION {Ancestors(Join(DownloadRoot, Comp(ds))) : ds \in Range(SourceDatasets)}

NextExtract ==
    \/ \E clear \in BOOLEAN, ac \in AcLists :
          ExtractSmb(Join(DownloadRoot, Comp("smb")), Join(ExtractRoot, Comp("smb")), clear, ac)
    \/ \E clear \in BOOLEAN, ac \in AcLists :
          ExtractAll(DownloadRoot, ExtractRoot, clear, ac)

SpecExtract == InitExtract /\ [][NextExtract]_vars

\* the records held by the archives of a directory
SourceRecords(dir) ==
    UNION {Range(files[f]) : f \in {g \in DOMAIN files : Parent(g) = dir /\ Suffix(g) = ".zip"}}

\* the rows of the chunk files of a directory
OutputTexts(dir) ==
    UNION {Range(files[f]) : f \in {g \in DOMAIN files : Parent(g) = dir /\ MatchesDataCsv(Name(g))}}

\* f is an ancestor prefix of c: c cut to as many segments as f has equals f
IsAncestorPrefix(f, c) == Len(f) <= Len(c) /\ SubSeq(c, 1, Len(f)) = f

\* the dotted codes among the values of --ac that are ancestor prefixes of c
SelectingFilters(ac, c) ==
    {i \in 1..Len(ac) : IsDotted(ac[i]) /\ IsAncestorPrefix(ac[i], c)}

\* C3: activity-code filter, parent selects children.  For every dotted
\* activity code c of an smb record and every filter f of the --ac list that is
\* an ancestor prefix of c, the filter matches c and the row is kept: it is
\* emitted by the extraction and stands in a chunk file of the destination
C3_ParentSelectsChildren ==
    (/\ last.cmd \in {"extract smb", "extract all"}
     /\ last.outcome = "ok"
     /\ ~IsNone(last.args.ac)) =>
        \E n \in 1..Len(calls) :
            /\ calls[n].stage = "extract"
            /\ calls[n].mode = "smb"
            /\ \A rec \in SourceRecords(calls[n].in_dir) :
                (/\ Parses(rec)
                 /\ IsDotted(rec.code.segs)
                 /\ SelectingFilters(last.args.ac.v, rec.code.segs) # {}) =>
                    /\ CodeTreeMatches(CodeTreeBuild(last.args.ac), rec.code)
                    /\ rec \in calls[n].emitted
                    /\ RecordText(rec) \in OutputTexts(calls[n].out_dir)

\* --ac 01.10 alone: the row of 01.10.01 is kept through its parent, the row of
\* 01.20 is dropped
C3_Witness ==
    /\ last.cmd = "extract smb"
    /\ last.outcome = "ok"
    /\ last.args.ac = Some(<<<<"01", "10">>>>)
    /\ last.args.clear
    /\ Rec(1) \in calls[1].emitted
    /\ RecordText(Rec(1)) \in OutputTexts(calls[1].out_dir)
    /\ Rec(3) \in SourceRecords(calls[1].in_dir)
    /\ Rec(3) \notin calls[1].emitted
    /\ RecordText(Rec(3)) \notin OutputTexts(calls[1].out_dir)

-----------------------------------------------------------------------------
(* The commands under the configurations config.json may hold              *)

\* a parsed config.json holding the keys that are present
Json(num_workers, chunksize, storage, token) ==
    (IF IsNone(num_workers) THEN <<>> ELSE "num_workers" :> num_workers.v)
    @@ (IF IsNone(chunksize) THEN <<>> ELSE "chunksize" :> chunksize.v)
    @@ (IF IsNone(storage) THEN <<>> ELSE "storage" :> storage.v)
    @@ (IF IsNone(token) THEN <<>> ELSE "token" :> token.v)

CfgFiles ==
    {CfgMissing, CfgCorrupt, SmallChunks,
     CfgOk(Json(None, Some(2), Some("local"), Some(""))),
     CfgOk(Json(Some(2), None, Some("local"), Some(""))),
     CfgOk(Json(Some(0), Some(2), Some("local"), Some(""))),
     CfgOk(Json(Some(2), Some(0 - 1), Some("local"), Some(""))),
     CfgOk(Json(Some(1), Some(2), Some("ydisk"), Some("t"))),
     CfgOk(Json(Some(1), Some(2), Some("ydisk"), None)),
     CfgOk(Json(None, Some(2), Some("ydisk"), None))}

InitCfg ==
    /\ cfgFile \in CfgFiles
    /\ calls = <<>>
    /\ last = NoCommand
    /\ written = NothingWritten
    /\ readDf = NothingRead
    /\ stage = NoStage
    /\ \E stale \in BOOLEAN :
        /\ files = Archive(Join(DownloadRoot, Comp("smb")), "snap1", <<Rec(1), RecNoDate>>)
                    @@ Archive(Join(DownloadRoot, Comp("smb")), "snap2", <<Rec(2)>>)
                    @@ Archive(Join(DownloadRoot, Comp("revexp")), "snap1", <<RecPlain("A")>>)
                    @@ Archive(Join(DownloadRoot, Comp("empl")), "snap1", <<RecPlain("B")>>)
                    @@ (IF stale THEN StaleCompanion ELSE <<>>)
        /\ dirs = UNION {Ancestors(Join(DownloadRoot, Comp(ds))) : ds \in Range(SourceDatasets)}
                  \cup (IF stale THEN Ancestors(Parent(DefaultCompanion)) ELSE {})

NextCfg ==
    \/ \E show \in BOOLEAN, chunksize \in {16, 32}, num_workers \in {1, 2} :
          Config(show, chunksize, num_workers, "local", "")
    \/ \E clear \in BOOLEAN : ExtractAll(DownloadRoot, ExtractRoot, clear, None)
    \/ \E clear \in BOOLEAN :
          ExtractSmb(Join(DownloadRoot, Comp("smb")), Join(ExtractRoot, Comp("smb")), clear, None)
    \/ \E clear \in BOOLEAN :
          ExtractRevexp(Join(DownloadRoot, Comp("revexp")), Join(ExtractRoot, Comp("revexp")), clear)
    \/ \E clear \in BOOLEAN :
          ExtractEmpl(Join(DownloadRoot, Comp("empl")), Join(ExtractRoot, Comp("empl")), clear)
    \/ \E out_dir \in OutDirs : \E orders \in DatasetOrders(FS, ExtractRoot) :
          AggregateAll(ExtractRoot, out_dir, orders)
    \/ \E out_dir \in OutDirs : AggregateSmb(Join(ExtractRoot, Comp("smb")), out_dir)
    \/ \E out_dir \in OutDirs, smb_data_file \in CompanionFiles :
          AggregateRevexp(Join(ExtractRoot, Comp("revexp")), out_dir, smb_data_file)
    \/ \E out_dir \in OutDirs, smb_data_file \in CompanionFiles :
          AggregateEmpl(Join(ExtractRoot, Comp("empl")), out_dir, smb_data_file)

SpecCfg == InitCfg /\ [][NextCfg]_vars

ExtractCommands == {"extract all", "extract smb", "extract revexp", "extract empl"}

\* the value is there and is a positive integer
IsPositive(o) == ~IsNone(o) /\ o.v \in Nat \ {0}

\* the worker count or the chunk size the commands find is not a positive
\* integer, the key missing from a loaded file included
InvalidWorkerConfig ==
    LET cfg == IF cfgFile.state = "ok" THEN cfgFile.json ELSE default_config
    IN ~(IsPositive(Get(cfg, "num_workers")) /\ IsPositive(Get(cfg, "chunksize")))

\* ydisk storage is configured without a token
TokenMissing ==
    /\ cfgFile.state = "ok"
    /\ Get(cfgFile.json, "storage") = Some("ydisk")
    /\ IsNone(Get(cfgFile.json, "token"))

\* one command, seen from the state before it to the state after it
C7_Step ==
    /\ (last'.cmd \in ExtractCommands /\ InvalidWorkerConfig) =>
          /\ \/ last'.outcome = "ConfigurationError"
             \/ TokenMissing /\ last'.outcome = "RuntimeError"
          /\ calls' = <<>>
          /\ files' = files
          /\ dirs' = dirs
    /\ (/\ last'.cmd \in {"aggregate revexp", "aggregate empl"}
        /\ ~Exists(FS, last'.args.smb_data_file)) =>
          /\ last'.outcome = "BadParameter"
          /\ calls' = <<>>
          /\ files' = files
          /\ dirs' = dirs
    /\ \A n \in 1..Len(calls') :
          LET c == calls'[n]
          IN (/\ c.stage = "aggregate"
              /\ c.mode \in {"revexp", "empl"}
              /\ c.smb_data_file.v \notin DOMAIN files') =>
                /\ c.outcome = "ConfigurationError"
                /\ c.work = {}
                /\ c.out_file \notin DOMAIN files' \ DOMAIN files

\* C7: configuration errors abort before any work begins.  Whenever the
\* configured worker count or chunk size is not a positive integer (a loaded
\* config file lacking the key included), or the companion SMB file required
\* for the revexp or empl aggregation is missing, the stage is aborted with a
\* configuration error before any archive is read, any destination is cleared,
\* any chunk is read or any output is written
C7_ConfigErrorsAbortBeforeWork == [][C7_Step]_vars

\* extract all under a config.json that lacks num_workers
C7_Witness ==
    /\ last.cmd = "extract all"
    /\ last.args.clear
    /\ cfgFile.state = "ok"
    /\ "num_workers" \notin DOMAIN cfgFile.json
    /\ ~TokenMissing
    /\ last.outcome = "ConfigurationError"
    /\ calls = <<>>

\* aggregate revexp with a companion path at which there is no file
C7_WitnessCompanionOption ==
    /\ last.cmd = "aggregate revexp"
    /\ ~Exists(FS, last.args.smb_data_file)
    /\ last.outcome = "BadParameter"

\* aggregate all into another out_dir: the companion of the revexp aggregation
\* is not there
C7_WitnessCompanionStage ==
    /\ last.cmd = "aggregate all"
    /\ Len(calls) = 2
    /\ calls[1].outcome = "ok"
    /\ calls[2].mode = "revexp"
    /\ calls[2].smb_data_file.v \notin DOMAIN files
    /\ calls[2].outcome = "ConfigurationError"

\* the four values a config command was given, as config.json would hold them
GivenConfig(args) ==
    [storage |-> args.storage, token |-> args.ydisk_token,
     num_workers |-> args.num_workers, chunksize |-> args.chunksize]

\* C8: the config command without --show completes without error and the
\* persisted configuration holds exactly the four given values
C8_ConfigSetsOptions ==
    (last.cmd = "config" /\ ~last.args.show) =>
        /\ last.outcome = "ok"
        /\ cfgFile = CfgOk(GivenConfig(last.args))

-----------------------------------------------------------------------------
(* The two input shapes of SparkStage._read                                *)

\* the step is a read of in_path: the files stay, the read record changes
IsReadOf(in_path) ==
    /\ files' = files
    /\ dirs' = dirs
    /\ written' = written
    /\ readDf' # readDf
    /\ readDf'.path = Some(in_path)

\* the rows of the data-*.csv files of a directory, listed in some order
DirectoryData(in_path) ==
    {Flatten([i \in 1..Len(order) |-> ReadRows(files[order[i]])]) :
        order \in Perms(Glob(FS, in_path))}

\* one read, seen from the state before it to the state after it
C11_Step ==
    \A in_path \in ReadPaths :
        IsReadOf(in_path) =>
            /\ (IsDir(FS, in_path) /\ Glob(FS, in_path) # {}) =>
                  /\ ~IsNone(readDf'.data)
                  /\ readDf'.data.v \in DirectoryData(in_path)
            /\ (in_path \in DOMAIN files /\ Suffix(in_path) = ".csv") =>
                  readDf'.data = Some(ReadRows(files[in_path]))
            /\ IsNone(readDf'.data) =>
                  \/ ~Exists(FS, in_path)
                  \/ IsDir(FS, in_path) /\ Glob(FS, in_path) = {}
                  \/ in_path \in DOMAIN files /\ Suffix(in_path) # ".csv"

\* C11: SparkStage._read accepts both input shapes.  Given an existing
\* directory it reads every data-*.csv file in it; given the path of an
\* existing single file with the .csv extension it reads exactly that file and
\* returns its data; it returns None only when the path does not exist or no
\* CSV input is found
C11_ReadsBothShapes == [][C11_Step]_vars

-----------------------------------------------------------------------------
(* The life of a SparkStage object and of its Spark session, lines 12-33   *)

\* SparkStage(): __init__ sets _session to None and calls _init_spark, where
\* getOrCreate either returns the session or raises; when it raises, the
\* half-built object is left without a reference
New(created) ==
    /\ stage.ref \in {"none", "collected"}
    /\ stage' = IF created
                THEN [ref |-> "held", session |-> "active", exit |-> "", del |-> ""]
                ELSE [ref |-> "dropped", session |-> "null", exit |-> "init_failed", del |-> ""]
    /\ UNCHANGED <<cfgFile, files, dirs, calls, last, written, readDf>>

\* the stage saves a data frame
LifeWrite(df, out_file) == stage.ref = "held" /\ StageWrite(df, out_file)

\* the stage loads a path
LifeRead(in_path, order) == stage.ref = "held" /\ StageRead(in_path, order)

\* the stage returns: nothing in SparkStage stops the session, the object
\* goes out of scope
Return ==
    /\ stage.ref = "held"
    /\ stage' = [stage EXCEPT !.ref = "dropped", !.exit = "success"]
    /\ UNCHANGED <<cfgFile, files, dirs, calls, last, written, readDf>>

\* the stage ends in a fatal error: _write of the None that _read returned
Fail(out_file) ==
    /\ stage.ref = "held"
    /\ Write(FS, None, out_file).err # ""
    /\ stage' = [stage EXCEPT !.ref = "dropped", !.exit = "fatal"]
    /\ UNCHANGED <<cfgFile, files, dirs, calls, last, written, readDf>>

\* __del__, when the collector gets to the unreferenced object: it calls
\* self._session.stop() whatever _session is
Del ==
    /\ stage.ref = "dropped"
    /\ stage' = IF stage.session = "null"
                THEN [stage EXCEPT !.ref = "collected", !.del = "AttributeError"]
                ELSE [stage EXCEPT !.ref = "collected", !.del = "ok", !.session = "stopped"]
    /\ UNCHANGED <<cfgFile, files, dirs, calls, last, written, readDf>>

InitLife == InitCsv

NextLife ==
    \/ \E created \in BOOLEAN : New(created)
    \/ \E df \in CsvFrames : LifeWrite(df, Join(OutDir, DataCsv("0")))
    \/ \E order \in GlobOrders(FS, OutDir) : LifeRead(OutDir, order)
    \/ Return
    \/ Fail(Join(OutDir, DataCsv("0")))
    \/ Del

SpecLife == InitLife /\ [][NextLife]_vars

\* C12: processing-context lifecycle.  The Spark session a stage acquires at
\* construction is stopped on every exit path of the stage (success, fatal
\* error, failed initialisation) as an explicit step, not when the object is
\* collected, and stop is never invoked on a session that was not acquired
C12_SessionReleasedOnExit ==
    /\ stage.exit # "" => stage.session # "active"
    /\ stage.del # "AttributeError"

====
